---- MODULE Spec2Model ----
(***************************************************************************)
(* Model of the FPGA Config utility (src/src/main.cpp): the orchestrator   *)
(* (main), the GPIO register window, the pin controller, the board         *)
(* revision detector, the passive-serial transfer engine and the           *)
(* termination-signal handler.                                             *)
(*                                                                         *)
(* The program is one thread plus an asynchronous signal handler.  pc is   *)
(* the position of the main thread; SigintHandler may run between any two  *)
(* steps of the main thread once the handler is installed.                 *)
(*                                                                         *)
(* exit_flag is a plain (non-volatile, non-atomic) bool written by the     *)
(* handler and read by _transfer_data: a data race.  A racy read inside    *)
(* one invocation of _transfer_data returns either the value in memory or  *)
(* the value an earlier read of the same invocation left in a register     *)
(* (flag_reg), which is what a build that hoists the load produces.        *)
(*                                                                         *)
(* Messages are modelled by their fixed text; the byte count and the       *)
(* elapsed milliseconds printed with them are left out.                    *)
(***************************************************************************)
EXTENDS Integers, Sequences, FiniteSets, TLC

\* ---------------------------------------------------------------- bounds
\* Longest bitstream image drawn from Bytes.
MaxLen == 2
\* The count of DCLK pulses started after the flag was set saturates here.
LatePulseCap == 9

\* ------------------------------------------------------ program constants
NUM_CONSECUTIVE_GPIO_WRITES == 5
FPGA2_NCE_GPIO_PIN == 2
DCLK_GPIO_PIN == 3
DATA0_GPIO_PIN == 16
NCONFIG_GPIO_PIN == 17
BOARD_REV_GPIO_PIN_1 == 20
BOARD_REV_GPIO_PIN_2 == 21
GPIO_SET_OFFSET == 28
GPIO_CLR_OFFSET == 40
GPIO_RD_OFFSET == 52
GPIO_PULL_BASE_OFFSET == 228
\* sizeof(uint32_t)
WordSize == 4
\* number of post-data DCLK pulses (int dclk_count = 10)
TailPulses == 10
\* registers are 32 bits wide
WordBits == 32

\* ----------------------------------------------------- 32-bit arithmetic
\* A 32-bit word is the set of the positions (0 = least significant) of its
\* 1 bits, so that all 2^32 values are representable.
BitPos == 0 .. (WordBits - 1)

RECURSIVE Pow2(_)
Pow2(n) == IF n = 0 THEN 1 ELSE 2 * Pow2(n - 1)

\* the word of a small non-negative integer literal
RECURSIVE BitsFrom(_, _)
BitsFrom(n, k) ==
    IF n = 0 THEN {}
    ELSE (IF n % 2 = 1 THEN {k} ELSE {}) \cup BitsFrom(n \div 2, k + 1)
Word(n) == BitsFrom(n, 0) \cap BitPos

\* x << n and x >> n on 32-bit words: bits shifted out are lost
Shl(x, n) == {b + n : b \in x} \cap BitPos
Shr(x, n) == {b - n : b \in {c \in x : c >= n}}

BitAnd(a, b) == a \cap b
BitOr(a, b) == a \cup b
BitNot32(a) == BitPos \ a

\* the value of a word known to fit a small integer
RECURSIVE WordValue(_)
WordValue(w) ==
    IF w = {} THEN 0
    ELSE LET b == CHOOSE c \in w : \A d \in w : d <= c
         IN  Pow2(b) + WordValue(w \ {b})

\* the level of one pin in a 32-bit level word
PinLevel(word, pin) == IF pin \in word THEN 1 ELSE 0

\* --------------------------------------------------------------- inputs
\* Byte values the bitstream files are made of, and the three-byte image
\* of the end-to-end scenario.
Bytes == {1, 178}
ScenarioImage == <<1, 0, 255>>

RECURSIVE SeqsUpTo(_)
SeqsUpTo(n) ==
    IF n = 0 THEN {<<>>}
    ELSE LET shorter == SeqsUpTo(n - 1)
         IN  shorter \cup {Append(s, b) : s \in {t \in shorter : Len(t) = n - 1}, b \in Bytes}

Images == SeqsUpTo(MaxLen) \cup {ScenarioImage}

\* Levels of the pins before the program runs: the two strap pins are wired
\* per board revision, the other pins are all low or all high.
StrapLevels == SUBSET {BOARD_REV_GPIO_PIN_1, BOARD_REV_GPIO_PIN_2}
DrivenPins == {FPGA2_NCE_GPIO_PIN, DCLK_GPIO_PIN, DATA0_GPIO_PIN, NCONFIG_GPIO_PIN}
PriorLevels == {s \cup d : s \in StrapLevels, d \in {{}, DrivenPins}}

\* Prior content of the function-select and pull-control registers.
PriorRegValues == {{}, BitPos}
\* Words a read through a null register pointer may return if it returns.
GarbageWords == {{}, {BOARD_REV_GPIO_PIN_1}, {BOARD_REV_GPIO_PIN_2}}

\* A word whose fields of the given width all hold the value f.
RepeatField(f, width) == {b \in BitPos : (f \div Pow2(b % width)) % 2 = 1}

\* Prior register words for a call of _init_gpio_pin in isolation: every
\* value of a function-select field and of a pull field, around the clock.
PriorWords == {RepeatField(f, 3) : f \in 0 .. 7} \cup {RepeatField(f, 2) : f \in 0 .. 3}

\* The pins the program passes to its pin primitives.
ProgramPins == DrivenPins \cup {BOARD_REV_GPIO_PIN_1, BOARD_REV_GPIO_PIN_2}

\* Word indices of the page the program touches besides set/clear/read:
\* function-select 0..2 and the pull-control area.
RegWords == {0, 1, 2} \cup (57 .. 61)

\* ---------------------------------------------------------------- state
VARIABLES
    hat,              \* MELBINST_PI_HAT of the build: 0 two targets, 1 one target
    pc,               \* position of the main thread
    handlers,         \* TRUE once ::signal() installed _sigint_handler
    exit_flag,        \* bool exit_flag
    flag_reg,         \* register copy of exit_flag inside _transfer_data ({} = none)
    gpio_port,        \* "NULL" or "PAGE"
    gpio_set_reg,     \* [base, idx]
    gpio_clr_reg,
    gpio_rd_reg,
    page_mapped,      \* the register page is mapped into the process
    munmap_count,     \* number of ::munmap calls made
    gpio_regs,        \* function-select / pull-control words of the page
    gpio_lev,         \* pin levels (the simulated pin-read register)
    pin_dir,          \* history: pin -> "none" | "out" | "in", the last
                      \* _init_gpio_pin call made for the pin
    binary_data,      \* 0 (null) or the id of the buffer it points to
    binary_data_size,
    heap,             \* buffer id -> "unalloc" | "live" | "freed"
    mem,              \* buffer id -> content
    bad_free,         \* a delete[] of a buffer that is not live happened
    alloc_failed,     \* new[] threw
    data,             \* _transfer_data: offset of `data` from binary_data
    byte,             \* _transfer_data: uint8_t byte
    i,                \* _transfer_data: bit index
    dclk_count,       \* _transfer_data: int dclk_count
    cur,              \* target whose transfer is running (0 = none)
    wire,             \* what the current/last transfer put on DATA0/DCLK
    xfer,             \* target -> "Idle" | "Streaming" | "Tailing" | "Done" | "Aborted"
    msgs,             \* standard output
    ops,              \* operations performed by the most recent step of main
    handler_ops,      \* operations performed by the most recent handler run
    sig_byte,         \* history: number of bytes started when the flag was first
                      \* set, if that was in the byte loop of the running transfer
    sig_tail,         \* history: number of tail pulses started when the flag
                      \* was first set, if that was in the tail of the running
                      \* transfer
    late_pulses,      \* history: DCLK pulses started with the flag already set
    sig_early,        \* history: the flag was first set before target 2 was loaded
    count_late,       \* whether the specification keeps sig_tail and late_pulses
    cfg,              \* history: the last isolated call of _init_gpio_pin
    exit_code         \* process exit status (-1 while running)

vars == <<hat, pc, handlers, exit_flag, flag_reg, gpio_port, gpio_set_reg,
          gpio_clr_reg, gpio_rd_reg, page_mapped, munmap_count, gpio_regs,
          gpio_lev, binary_data, binary_data_size, heap, mem, bad_free,
          alloc_failed, data, byte, i, dclk_count, cur, wire, xfer, msgs,
          ops, handler_ops, sig_byte, pin_dir, sig_tail, late_pulses, count_late,
          cfg, sig_early, exit_code>>

gpioVars == <<gpio_port, gpio_set_reg, gpio_clr_reg, gpio_rd_reg, page_mapped,
              munmap_count, gpio_regs, gpio_lev, pin_dir>>
heapVars == <<binary_data, binary_data_size, heap, mem, bad_free, alloc_failed>>
xferVars == <<data, byte, i, dclk_count, cur, wire, xfer, flag_reg>>
sigVars == <<exit_flag, handler_ops, sig_byte, sig_tail, late_pulses, sig_early>>

NullPtr == [base |-> "NULL", idx |-> 0]
Terminal == {"exited", "crashed", "terminated"}
NoCall == [pin |-> -1, output |-> FALSE, prior |-> [r \in RegWords |-> {}]]

\* One operation of a step: a register access (base/reg/val) or another call.
Op(o, b, r, v) == [op |-> o, base |-> b, reg |-> r, val |-> v]
Other(o) == Op(o, "-", 0, {})

\* The state before main runs, for a build among hats, prior pin levels among
\* levels and prior register contents among priors.
InitWith(hats, levels, priors, counting, start) ==
    /\ hat \in hats
    /\ pc = start
    /\ handlers = FALSE
    /\ exit_flag = FALSE
    /\ flag_reg = {}
    /\ gpio_port = "NULL"
    /\ gpio_set_reg = NullPtr
    /\ gpio_clr_reg = NullPtr
    /\ gpio_rd_reg = NullPtr
    /\ page_mapped = FALSE
    /\ munmap_count = 0
    /\ \E v \in priors : gpio_regs = [r \in RegWords |-> v]
    /\ gpio_lev \in levels
    /\ binary_data = 0
    /\ binary_data_size = 0
    /\ heap = [b \in {1, 2} |-> "unalloc"]
    /\ mem = [b \in {1, 2} |-> <<>>]
    /\ bad_free = FALSE
    /\ alloc_failed = FALSE
    /\ data = 0
    /\ byte = 0
    /\ i = 0
    /\ dclk_count = 0
    /\ cur = 0
    /\ wire = <<>>
    /\ xfer = [t \in {1, 2} |-> "Idle"]
    /\ msgs = <<>>
    /\ ops = <<>>
    /\ handler_ops = <<>>
    /\ sig_byte = 0
    /\ pin_dir = [p \in BitPos |-> "none"]
    /\ sig_tail = 0
    /\ late_pulses = 0
    /\ count_late = counting
    /\ sig_early = FALSE
    /\ cfg = NoCall
    /\ exit_code = -1

Init == InitWith({0, 1}, PriorLevels, PriorRegValues, FALSE, "main_start")

\* The two-target build on one board with all driven pins low, keeping the
\* tail pulse at which the flag was set and the count of pulses started after
\* it.
InitCancel == InitWith({0}, {{BOARD_REV_GPIO_PIN_1}}, {{}}, TRUE, "main_start")

\* One call of _init_gpio_pin on registers holding any of PriorWords.
InitConfigure == InitWith({0}, {{}}, PriorWords, FALSE, "cfg_call")

\* ------------------------------------------------------- pin controller
\* variant: the pin number written without the shift
PinWord_NoShift(pin) == Word(pin)

\* (1 << pin) of SET_GPIO_PIN / CLR_GPIO_PIN
PinWord(pin) == Shl(Word(1), pin)

\* *reg = (1 << pin) through a register pointer
SetPin(ptr, pin) == Op("write", ptr.base, ptr.idx, PinWord(pin))
ClrPin(ptr, pin) == Op("write", ptr.base, ptr.idx, PinWord(pin))

SET_GPIO_PIN(pin) == SetPin(gpio_set_reg, pin)
CLR_GPIO_PIN(pin) == ClrPin(gpio_clr_reg, pin)
\* variant: the rising edge written once
SET_DCLK_PIN_Once == <<SET_GPIO_PIN(DCLK_GPIO_PIN)>>

\* SET_DCLK_PIN() / CLR_DCLK_PIN(): the write repeated
SET_DCLK_PIN == [k \in 1 .. NUM_CONSECUTIVE_GPIO_WRITES |-> SET_GPIO_PIN(DCLK_GPIO_PIN)]
\* variant: the falling edge written to the pin-set register
CLR_DCLK_PIN_ToSet == [k \in 1 .. NUM_CONSECUTIVE_GPIO_WRITES |-> SET_GPIO_PIN(DCLK_GPIO_PIN)]

CLR_DCLK_PIN == [k \in 1 .. NUM_CONSECUTIVE_GPIO_WRITES |-> CLR_GPIO_PIN(DCLK_GPIO_PIN)]

\* (((*gpio_rd_reg) >> pin) & 0x01) on the word the read returned
RD_GPIO_PIN(word, pin) == WordValue(BitAnd(Shr(word, pin), Word(1)))

\* The register file: a write of a word to the pin-set register raises the
\* pins whose bit is 1, to the pin-clear register lowers them.
RegWrite(lev, o) ==
    IF o.op = "write" /\ o.base = "PAGE"
    THEN IF o.reg = GPIO_SET_OFFSET \div WordSize THEN BitOr(lev, o.val)
         ELSE IF o.reg = GPIO_CLR_OFFSET \div WordSize THEN BitAnd(lev, BitNot32(o.val))
         ELSE lev
    ELSE lev

\* what a register write puts on the DATA0 / DCLK lines
WireSym(o) ==
    LET set == o.op = "write" /\ o.base = "PAGE" /\ o.reg = GPIO_SET_OFFSET \div WordSize
        clr == o.op = "write" /\ o.base = "PAGE" /\ o.reg = GPIO_CLR_OFFSET \div WordSize
    IN  CASE set /\ o.val = {DCLK_GPIO_PIN}  -> "H"
          [] clr /\ o.val = {DCLK_GPIO_PIN}  -> "L"
          [] set /\ o.val = {DATA0_GPIO_PIN} -> "D1"
          [] clr /\ o.val = {DATA0_GPIO_PIN} -> "D0"
          [] OTHER -> "?"

RECURSIVE ApplyOps(_, _)
ApplyOps(lev, seq) ==
    IF seq = <<>> THEN lev ELSE ApplyOps(RegWrite(lev, Head(seq)), Tail(seq))

\* variant: the input branch clears two bits of the function-select field
InitGpioPin_NarrowMask(regs, pin, output) ==
    IF output
    THEN [regs EXCEPT ![pin \div 10] = BitOr(@, Shl(Word(1), (pin % 10) * 3))]
    ELSE LET sel == [regs EXCEPT ![pin \div 10] = BitAnd(@, BitNot32(Shl(Word(3), (pin % 10) * 3)))]
             pull_reg_offset == (GPIO_PULL_BASE_OFFSET \div WordSize) + ((pin \div 16) * 4)
             pull_bits_offset == (pin % 16) * 2
         IN  [sel EXCEPT ![pull_reg_offset] =
                 BitOr(BitAnd(@, BitNot32(Shl(Word(3), pull_bits_offset))), Shl(Word(1), pull_bits_offset))]

\* _init_gpio_pin(pin, output) on the words of the page
InitGpioPin(regs, pin, output) ==
    IF output
    THEN [regs EXCEPT ![pin \div 10] = BitOr(@, Shl(Word(1), (pin % 10) * 3))]
    ELSE LET sel == [regs EXCEPT ![pin \div 10] = BitAnd(@, BitNot32(Shl(Word(7), (pin % 10) * 3)))]
             pull_reg_offset == (GPIO_PULL_BASE_OFFSET \div WordSize) + ((pin \div 16) * 4)
             pull_bits_offset == (pin % 16) * 2
         IN  [sel EXCEPT ![pull_reg_offset] =
                 BitOr(BitAnd(@, BitNot32(Shl(Word(3), pull_bits_offset))), Shl(Word(1), pull_bits_offset))]

ConfigureOp(pin) == Op("configure", "PAGE", pin \div 10, {pin})

\* ------------------------------------------------------- signal handler
\* _sigint_handler: exit_flag = true; exit_notifier.notify_one();
HandlerOps == <<Other("store exit_flag"), Other("exit_notifier.notify_one")>>

\* positions inside the byte loop of _transfer_data
StreamPcs == {"t_check", "t_data", "t_clk_hi", "t_clk_lo"}

\* positions inside the tail loop of _transfer_data
TailPcs == {"tail_check", "tail_hi", "tail_lo"}

SigintHandler ==
    /\ handlers
    /\ pc \notin Terminal
    /\ exit_flag' = TRUE
    /\ handler_ops' = HandlerOps
    /\ sig_byte' = IF (~exit_flag) /\ pc \in StreamPcs /\ data >= 1 THEN data ELSE sig_byte
    /\ sig_tail' = IF count_late /\ (~exit_flag) /\ pc \in TailPcs /\ dclk_count < TailPulses
                   THEN TailPulses - dclk_count ELSE sig_tail
    /\ sig_early' = IF ~exit_flag THEN xfer[2] = "Idle" ELSE sig_early
    /\ UNCHANGED late_pulses
    /\ UNCHANGED <<hat, count_late, cfg, pc, handlers, gpioVars, heapVars, xferVars, msgs, ops, exit_code>>

\* ----------------------------------------------------------------- main
\* main: ::signal(SIGINT, ...); ::signal(SIGTERM, ...); _print_app_info();
AppInfo == <<"FPGA CONFIG - Copyright (c) 2023-2024 Melbourne Instruments, Australia",
             "Version 1.1.0", "">>

MainStart ==
    /\ pc = "main_start"
    /\ handlers' = TRUE
    /\ msgs' = msgs \o AppInfo
    /\ ops' = <<Other("signal SIGINT"), Other("signal SIGTERM")>>
    /\ pc' = "open_gpio"
    /\ UNCHANGED <<hat, count_late, cfg, sigVars, gpioVars, heapVars, xferVars, exit_code>>

\* _mmap_bcm_register_base: null when ::open or ::mmap fails
MmapBcmRegisterBase(result) == IF result = "ok" THEN "PAGE" ELSE "NULL"

SetupPins(h) ==
    <<NCONFIG_GPIO_PIN>> \o (IF h = 0 THEN <<FPGA2_NCE_GPIO_PIN>> ELSE <<>>) \o <<DCLK_GPIO_PIN>>

\* the initial state of each pin, written through the new pointers
SetupWrites(h, setp, clrp) ==
    (IF h = 0 THEN <<SetPin(setp, FPGA2_NCE_GPIO_PIN)>> ELSE <<>>)
    \o <<ClrPin(clrp, DCLK_GPIO_PIN), ClrPin(clrp, DATA0_GPIO_PIN), ClrPin(clrp, NCONFIG_GPIO_PIN)>>

RECURSIVE InitOutputs(_, _)
InitOutputs(regs, pins) ==
    IF pins = <<>> THEN regs ELSE InitOutputs(InitGpioPin(regs, Head(pins), TRUE), Tail(pins))

OpenAndSetupGpio ==
    /\ pc = "open_gpio"
    /\ \E result \in {"ok", "open_failed", "mmap_failed"} :
         LET port == MmapBcmRegisterBase(result)
             setp == [base |-> "PAGE", idx |-> GPIO_SET_OFFSET \div WordSize]
             clrp == [base |-> "PAGE", idx |-> GPIO_CLR_OFFSET \div WordSize]
             rdp  == [base |-> "PAGE", idx |-> GPIO_RD_OFFSET \div WordSize]
             outs == SetupPins(hat)
             writes == SetupWrites(hat, setp, clrp)
         IN  /\ gpio_port' = port
             /\ IF port # "NULL"
                THEN /\ page_mapped' = TRUE
                     /\ gpio_set_reg' = setp
                     /\ gpio_clr_reg' = clrp
                     /\ gpio_rd_reg' = rdp
                     /\ gpio_regs' = InitGpioPin(
                                        InitGpioPin(InitOutputs(gpio_regs, outs),
                                                    BOARD_REV_GPIO_PIN_1, FALSE),
                                        BOARD_REV_GPIO_PIN_2, FALSE)
                     /\ gpio_lev' = ApplyOps(gpio_lev, writes)
                     /\ pin_dir' = [p \in BitPos |->
                                      IF p \in {BOARD_REV_GPIO_PIN_1, BOARD_REV_GPIO_PIN_2} THEN "in"
                                      ELSE IF \E k \in 1 .. Len(outs) : outs[k] = p THEN "out"
                                      ELSE pin_dir[p]]
                     /\ ops' = [k \in 1 .. Len(outs) |-> ConfigureOp(outs[k])]
                               \o <<ConfigureOp(BOARD_REV_GPIO_PIN_1), ConfigureOp(BOARD_REV_GPIO_PIN_2)>>
                               \o writes
                     /\ msgs' = Append(msgs, "GPIO open and setup")
                ELSE /\ ops' = <<Other(result)>>
                     /\ msgs' = Append(msgs, "GPIO open/setup error")
                     /\ UNCHANGED <<page_mapped, gpio_set_reg, gpio_clr_reg, gpio_rd_reg,
                                    gpio_regs, gpio_lev, pin_dir>>
    /\ pc' = "board_rev"
    /\ UNCHANGED <<hat, count_late, cfg, handlers, sigVars, munmap_count, heapVars, xferVars, exit_code>>

\* ------------------------------------------------ board revision detector
\* variant: the two strap pins swapped
BoardRevCode_Swapped(w1, w2) ==
    RD_GPIO_PIN(w1, BOARD_REV_GPIO_PIN_2) + (RD_GPIO_PIN(w2, BOARD_REV_GPIO_PIN_1) * 2)

\* uint rev = RD_GPIO_PIN(20) + (RD_GPIO_PIN(21) << 1), from the two words read
BoardRevCode(w1, w2) ==
    RD_GPIO_PIN(w1, BOARD_REV_GPIO_PIN_1) + (RD_GPIO_PIN(w2, BOARD_REV_GPIO_PIN_2) * 2)

\* switch (rev)
BoardRevMsg(rev) ==
    CASE rev = 0 -> <<"Detected Board Rev D">>
      [] rev = 1 -> <<"Detected Board Rev B">>
      [] rev = 2 -> <<"Detected Board Rev C">>
      [] rev = 3 -> <<"Detected Board Rev A">>
      [] OTHER   -> <<>>

ReportRev(w1, w2) ==
    /\ msgs' = msgs \o BoardRevMsg(BoardRevCode(w1, w2))
    /\ ops' = <<Op("read", gpio_rd_reg.base, gpio_rd_reg.idx, w1),
                Op("read", gpio_rd_reg.base, gpio_rd_reg.idx, w2)>>
    /\ pc' = "main_check"
    /\ UNCHANGED exit_code

\* _print_board_rev_info is called whether or not the page was mapped.  With
\* gpio_rd_reg null the read is undefined: the process faults, or the read
\* returns some word.
PrintBoardRevInfo ==
    /\ pc = "board_rev"
    /\ IF gpio_rd_reg.base = "PAGE" /\ page_mapped
       THEN ReportRev(gpio_lev, gpio_lev)
       ELSE \/ /\ pc' = "crashed"
               /\ exit_code' = 139
               /\ ops' = <<Op("read", gpio_rd_reg.base, gpio_rd_reg.idx, {})>>
               /\ UNCHANGED msgs
            \/ \E w1 \in GarbageWords, w2 \in GarbageWords : ReportRev(w1, w2)
    /\ UNCHANGED <<hat, count_late, cfg, handlers, sigVars, gpioVars, heapVars, xferVars>>

\* main: if (gpio_port)
MainCheckGpio ==
    /\ pc = "main_check"
    /\ pc' = IF gpio_port # "NULL" THEN "f1_load" ELSE "main_free2"
    /\ ops' = <<>>
    /\ UNCHANGED <<hat, count_late, cfg, handlers, sigVars, gpioVars, heapVars, xferVars, msgs, exit_code>>

\* --------------------------------------------------------- heap and files
\* delete [] of buffer b
Delete(b) ==
    /\ heap' = IF heap[b] = "live" THEN [heap EXCEPT ![b] = "freed"] ELSE heap
    /\ bad_free' = (bad_free \/ heap[b] # "live")
    /\ mem' = [mem EXCEPT ![b] = <<>>]

\* where main continues after _config_fpga<t> returns
AfterConfig(t) == IF t = 1 /\ hat = 0 THEN "main_free1" ELSE "main_free2"

LoadPc(t) == IF t = 1 THEN "f1_load" ELSE "f2_load"
ReportPc(t) == IF t = 1 THEN "f1_report" ELSE "f2_report"
OpenErrorMsg(t) ==
    IF t = 1 THEN "Could not open the FPGA1 binary file" ELSE "Could not open the FPGA2 binary file"
SizeMsg(t) == IF t = 1 THEN "FPGA1 binary file size" ELSE "FPGA2 binary file size"
ConfiguredMsg(t) == IF t = 1 THEN "FPGA1 configured" ELSE "FPGA2 configured"

\* variant: target 2's chip-select written high instead of low
SelectOp_NceHigh(t) ==
    IF t = 1 THEN SET_GPIO_PIN(NCONFIG_GPIO_PIN) ELSE SET_GPIO_PIN(FPGA2_NCE_GPIO_PIN)

\* the select write before the transfer: nCONFIG high for target 1, nCE low
\* for target 2
SelectOp(t) ==
    IF t = 1 THEN SET_GPIO_PIN(NCONFIG_GPIO_PIN) ELSE CLR_GPIO_PIN(FPGA2_NCE_GPIO_PIN)

\* _config_fpga1 / _config_fpga2 up to the call of _transfer_data and the
\* initialisation of its cursor.  The file cannot be opened, or new[] throws
\* std::bad_alloc (not caught: std::terminate), or the image is read.
ConfigFpgaLoad(t) ==
    /\ pc = LoadPc(t)
    /\ \/ /\ msgs' = Append(msgs, OpenErrorMsg(t))
          /\ ops' = <<Other("open failed")>>
          /\ pc' = AfterConfig(t)
          /\ UNCHANGED <<gpioVars, heapVars, xferVars, exit_code>>
       \/ /\ alloc_failed' = TRUE
          /\ ops' = <<Other("bad_alloc")>>
          /\ pc' = "terminated"
          /\ exit_code' = 134
          /\ UNCHANGED <<gpioVars, binary_data, binary_data_size, heap, mem, bad_free,
                         xferVars, msgs>>
       \/ \E img \in Images :
            /\ binary_data' = t
            /\ heap' = [heap EXCEPT ![t] = "live"]
            /\ mem' = [mem EXCEPT ![t] = img]
            /\ binary_data_size' = Len(img)
            /\ msgs' = Append(msgs, SizeMsg(t))
            /\ ops' = <<Other("new[]"), SelectOp(t)>>
            /\ gpio_lev' = ApplyOps(gpio_lev, <<SelectOp(t)>>)
            /\ cur' = t
            /\ data' = 0
            /\ wire' = <<>>
            /\ flag_reg' = {}
            /\ xfer' = [xfer EXCEPT ![t] = "ConfigAsserted"]
            /\ pc' = "t_check"
            /\ UNCHANGED <<gpio_port, gpio_set_reg, gpio_clr_reg, gpio_rd_reg, page_mapped,
                           munmap_count, gpio_regs, pin_dir, bad_free, alloc_failed, byte, i,
                           dclk_count, exit_code>>
    /\ UNCHANGED <<hat, count_late, cfg, handlers, sigVars>>

\* ------------------------------------------------------- transfer engine
\* the values a read of exit_flag inside _transfer_data may return
FlagReads == {exit_flag} \cup flag_reg

\* while (!exit_flag && (data < (binary_data + binary_data_size)))
StreamContinues(flag, d, size) == (~flag) /\ d < size

\* variant: pre-decrement, one pulse short
TailContinues_PreDecrement(flag, count) == (~flag) /\ count - 1 # 0

\* while (!exit_flag && dclk_count--): the loop is entered
TailContinues(flag, count) == (~flag) /\ count # 0

\* variant: most significant bit first
DataBit_MsbFirst(b, k) == (b \div Pow2(7 - k)) % 2

\* uint8_t bit = (byte >> i) & 0x01
DataBit(b, k) == (b \div Pow2(k)) % 2

\* the write that drives DATA0 to a bit
DataOp(bit) == IF bit # 0 THEN SET_GPIO_PIN(DATA0_GPIO_PIN) ELSE CLR_GPIO_PIN(DATA0_GPIO_PIN)

TransferCheck ==
    /\ pc = "t_check"
    /\ \E flag \in FlagReads :
         /\ flag_reg' = {flag}
         /\ ops' = <<Other("load exit_flag")>>
         /\ IF StreamContinues(flag, data, binary_data_size)
            THEN /\ byte' = mem[binary_data][data + 1]
                 /\ data' = data + 1
                 /\ i' = 0
                 /\ xfer' = [xfer EXCEPT ![cur] = "Streaming"]
                 /\ pc' = "t_data"
                 /\ UNCHANGED dclk_count
            ELSE /\ dclk_count' = TailPulses
                 /\ xfer' = [xfer EXCEPT ![cur] = IF flag THEN "Aborted" ELSE "Tailing"]
                 /\ pc' = "tail_check"
                 /\ UNCHANGED <<byte, data, i>>
    /\ UNCHANGED <<hat, count_late, cfg, handlers, sigVars, gpioVars, heapVars, cur, wire, msgs, exit_code>>

TransferData ==
    /\ pc = "t_data"
    /\ LET bit == DataBit(byte, i)
       IN  /\ ops' = <<DataOp(bit)>>
           /\ gpio_lev' = ApplyOps(gpio_lev, <<DataOp(bit)>>)
           /\ wire' = Append(wire, WireSym(DataOp(bit)))
    /\ pc' = "t_clk_hi"
    /\ UNCHANGED <<hat, count_late, cfg, handlers, sigVars, gpio_port, gpio_set_reg, gpio_clr_reg,
                   gpio_rd_reg, page_mapped, munmap_count, gpio_regs, pin_dir, heapVars, data,
                   byte, i, dclk_count, cur, xfer, flag_reg, msgs, exit_code>>

\* SET_DCLK_PIN() in the bit loop (in_tail = FALSE) or the tail loop
ClockHigh(in_tail) ==
    /\ pc = IF in_tail THEN "tail_hi" ELSE "t_clk_hi"
    /\ ops' = SET_DCLK_PIN
    /\ gpio_lev' = ApplyOps(gpio_lev, SET_DCLK_PIN)
    /\ wire' = Append(wire, WireSym(SET_DCLK_PIN[1]))
    /\ late_pulses' = IF count_late /\ exit_flag /\ late_pulses < LatePulseCap
                      THEN late_pulses + 1 ELSE late_pulses
    /\ pc' = IF in_tail THEN "tail_lo" ELSE "t_clk_lo"
    /\ UNCHANGED <<hat, count_late, cfg, handlers, exit_flag, handler_ops, sig_byte, sig_tail, sig_early, gpio_port, gpio_set_reg, gpio_clr_reg,
                   gpio_rd_reg, page_mapped, munmap_count, gpio_regs, pin_dir, heapVars, data,
                   byte, i, dclk_count, cur, xfer, flag_reg, msgs, exit_code>>

\* CLR_DCLK_PIN() and the step of the enclosing loop
ClockLow(in_tail) ==
    /\ pc = IF in_tail THEN "tail_lo" ELSE "t_clk_lo"
    /\ ops' = CLR_DCLK_PIN
    /\ gpio_lev' = ApplyOps(gpio_lev, CLR_DCLK_PIN)
    /\ wire' = Append(wire, WireSym(CLR_DCLK_PIN[1]))
    /\ IF in_tail
       THEN /\ pc' = "tail_check"
            /\ UNCHANGED i
       ELSE /\ i' = i + 1
            /\ pc' = IF i + 1 < 8 THEN "t_data" ELSE "t_check"
    /\ UNCHANGED <<hat, count_late, cfg, handlers, sigVars, gpio_port, gpio_set_reg, gpio_clr_reg,
                   gpio_rd_reg, page_mapped, munmap_count, gpio_regs, pin_dir, heapVars, data,
                   byte, dclk_count, cur, xfer, flag_reg, msgs, exit_code>>

\* the condition of the tail loop; leaving it returns from _transfer_data
TailCheck ==
    /\ pc = "tail_check"
    /\ \E flag \in FlagReads :
         /\ flag_reg' = {flag}
         /\ ops' = <<Other("load exit_flag")>>
         /\ dclk_count' = IF flag THEN dclk_count ELSE dclk_count - 1
         /\ IF TailContinues(flag, dclk_count)
            THEN /\ pc' = "tail_hi"
                 /\ UNCHANGED xfer
            ELSE /\ pc' = ReportPc(cur)
                 /\ xfer' = [xfer EXCEPT ![cur] =
                               IF flag \/ @ = "Aborted" THEN "Aborted" ELSE "Done"]
    /\ UNCHANGED <<hat, count_late, cfg, handlers, sigVars, gpioVars, heapVars, data, byte, i, cur, wire,
                   msgs, exit_code>>

\* after _transfer_data returns: std::cout << "FPGA<t> configured, " ...
ConfigFpgaReport(t) ==
    /\ pc = ReportPc(t)
    /\ msgs' = Append(msgs, ConfiguredMsg(t))
    /\ ops' = <<Other("cout")>>
    /\ cur' = 0
    /\ data' = 0
    /\ byte' = 0
    /\ i' = 0
    /\ dclk_count' = 0
    /\ flag_reg' = {}
    /\ sig_byte' = 0
    /\ sig_tail' = 0
    /\ pc' = AfterConfig(t)
    /\ UNCHANGED <<hat, count_late, cfg, handlers, exit_flag, handler_ops, late_pulses, sig_early, gpioVars, heapVars, wire, xfer,
                   exit_code>>

\* ------------------------------------------------------- main, continued
\* variant: the pointer is not reset after the delete
MainFree1_KeepPointer ==
    /\ pc = "main_free1"
    /\ IF binary_data # 0
       THEN /\ Delete(binary_data)
            /\ ops' = <<Other("delete[]")>>
       ELSE /\ ops' = <<>>
            /\ UNCHANGED <<heap, mem, bad_free>>
    /\ pc' = "f2_load"
    /\ UNCHANGED <<hat, count_late, cfg, handlers, sigVars, gpioVars, binary_data, binary_data_size,
                   alloc_failed, xferVars, msgs, exit_code>>

\* main, two-target build: if (binary_data) delete [] binary_data; binary_data = 0;
MainFree1 ==
    /\ pc = "main_free1"
    /\ IF binary_data # 0
       THEN /\ Delete(binary_data)
            /\ ops' = <<Other("delete[]")>>
       ELSE /\ ops' = <<>>
            /\ UNCHANGED <<heap, mem, bad_free>>
    /\ binary_data' = 0
    /\ pc' = "f2_load"
    /\ UNCHANGED <<hat, count_late, cfg, handlers, sigVars, gpioVars, binary_data_size, alloc_failed,
                   xferVars, msgs, exit_code>>

\* variant: the final delete left out
MainFree2_NoDelete ==
    /\ pc = "main_free2"
    /\ ops' = <<>>
    /\ pc' = "close_gpio"
    /\ UNCHANGED <<hat, count_late, cfg, handlers, sigVars, gpioVars, heapVars, xferVars,
                   msgs, exit_code>>

\* main: if (binary_data) delete [] binary_data;
MainFree2 ==
    /\ pc = "main_free2"
    /\ IF binary_data # 0
       THEN /\ Delete(binary_data)
            /\ ops' = <<Other("delete[]")>>
       ELSE /\ ops' = <<>>
            /\ UNCHANGED <<heap, mem, bad_free>>
    /\ pc' = "close_gpio"
    /\ UNCHANGED <<hat, count_late, cfg, handlers, sigVars, gpioVars, binary_data, binary_data_size,
                   alloc_failed, xferVars, msgs, exit_code>>

\* the writes of _close_gpio
CloseWrites == <<CLR_GPIO_PIN(DCLK_GPIO_PIN), CLR_GPIO_PIN(DATA0_GPIO_PIN)>>

CloseGpio ==
    /\ pc = "close_gpio"
    /\ IF gpio_port # "NULL"
       THEN /\ gpio_lev' = ApplyOps(gpio_lev, CloseWrites)
            /\ ops' = Append(CloseWrites, Other("munmap"))
            /\ page_mapped' = FALSE
            /\ munmap_count' = munmap_count + 1
            /\ gpio_port' = "NULL"
            /\ msgs' = Append(msgs, "GPIO port closed")
       ELSE /\ ops' = <<>>
            /\ UNCHANGED <<gpio_lev, page_mapped, munmap_count, gpio_port, msgs>>
    /\ pc' = "main_exit"
    /\ UNCHANGED <<hat, count_late, cfg, handlers, sigVars, gpio_set_reg, gpio_clr_reg, gpio_rd_reg,
                   gpio_regs, pin_dir, heapVars, xferVars, exit_code>>

\* MSG("\nFPGA Config completed"); return 0;
MainExit ==
    /\ pc = "main_exit"
    /\ msgs' = Append(msgs, "FPGA Config completed")
    /\ ops' = <<Other("return")>>
    /\ exit_code' = 0
    /\ pc' = "exited"
    /\ UNCHANGED <<hat, count_late, cfg, handlers, sigVars, gpioVars, heapVars, xferVars>>

Next ==
    \/ SigintHandler
    \/ MainStart
    \/ OpenAndSetupGpio
    \/ PrintBoardRevInfo
    \/ MainCheckGpio
    \/ ConfigFpgaLoad(1)
    \/ ConfigFpgaLoad(2)
    \/ TransferCheck
    \/ TransferData
    \/ ClockHigh(FALSE)
    \/ ClockLow(FALSE)
    \/ TailCheck
    \/ ClockHigh(TRUE)
    \/ ClockLow(TRUE)
    \/ ConfigFpgaReport(1)
    \/ ConfigFpgaReport(2)
    \/ MainFree1
    \/ MainFree2
    \/ CloseGpio
    \/ MainExit

Spec == Init /\ [][Next]_vars

\* the same program from InitCancel
SpecCancel == InitCancel /\ [][Next]_vars

\* the steps of the main thread: every step but the signal handler
MainThread ==
    \/ MainStart
    \/ OpenAndSetupGpio
    \/ PrintBoardRevInfo
    \/ MainCheckGpio
    \/ ConfigFpgaLoad(1)
    \/ ConfigFpgaLoad(2)
    \/ TransferCheck
    \/ TransferData
    \/ ClockHigh(FALSE)
    \/ ClockLow(FALSE)
    \/ TailCheck
    \/ ClockHigh(TRUE)
    \/ ClockLow(TRUE)
    \/ ConfigFpgaReport(1)
    \/ ConfigFpgaReport(2)
    \/ MainFree1
    \/ MainFree2
    \/ CloseGpio
    \/ MainExit

\* Both builds on one board with all pins low and cleared registers.
InitFair == InitWith({0, 1}, {{}}, {{}}, FALSE, "main_start")

\* The main thread is always scheduled: it takes a step whenever it has one.
\* Signals may arrive at any time, any number of times, or never.
SpecFair == InitFair /\ [][Next]_vars /\ WF_vars(MainThread)

\* ------------------------------------------- _init_gpio_pin in isolation
\* one call _init_gpio_pin(pin, output) on the registers as they are
ConfigurePin ==
    /\ pc = "cfg_call"
    /\ \E pin \in ProgramPins, output \in BOOLEAN :
        /\ gpio_regs' = InitGpioPin(gpio_regs, pin, output)
        /\ cfg' = [pin |-> pin, output |-> output, prior |-> gpio_regs]
        /\ ops' = <<ConfigureOp(pin)>>
    /\ pc' = "cfg_done"
    /\ UNCHANGED <<hat, count_late, handlers, sigVars, heapVars, xferVars, msgs,
                   exit_code, gpio_port, gpio_set_reg, gpio_clr_reg, gpio_rd_reg,
                   page_mapped, munmap_count, gpio_lev, pin_dir>>

NextConfigure == ConfigurePin

SpecConfigure == InitConfigure /\ [][NextConfigure]_vars

\* ---------------------------------------------------------- type checks
TypeOK ==
    /\ hat \in {0, 1}
    /\ exit_flag \in BOOLEAN
    /\ gpio_lev \subseteq BitPos
    /\ \A r \in RegWords : gpio_regs[r] \subseteq BitPos
    /\ binary_data \in 0 .. 2
    /\ i \in 0 .. 8
    /\ dclk_count \in -1 .. TailPulses
    /\ cur \in 0 .. 2

\* ------------------------------------------------- observation helpers
Range(f) == {f[k] : k \in DOMAIN f}
Last(q) == q[Len(q)]
Returned == pc \in {"f1_report", "f2_report"}
IsWrite(o) == o.op = "write"
IsRegAccess(o) == o.op \in {"write", "read", "configure"}
WritesPin(o, pin) == IsWrite(o) /\ pin \in o.val
EverMapped == page_mapped \/ munmap_count > 0

\* the bits of a byte, least significant first, by repeated halving
RECURSIVE LsbFirst(_, _)
LsbFirst(b, n) == IF n = 0 THEN <<>> ELSE <<b % 2>> \o LsbFirst(b \div 2, n - 1)

RECURSIVE ImageBits(_)
ImageBits(img) == IF img = <<>> THEN <<>> ELSE LsbFirst(Head(img), 8) \o ImageBits(Tail(img))

\* the data values of the bit cells on the wire, in order
RECURSIVE DataValues(_)
DataValues(w) ==
    IF w = <<>> THEN <<>>
    ELSE (IF Head(w) = "D1" THEN <<1>> ELSE IF Head(w) = "D0" THEN <<0>> ELSE <<>>)
         \o DataValues(Tail(w))

IsPrefix(a, b) == Len(a) <= Len(b) /\ \A k \in 1 .. Len(a) : a[k] = b[k]

\* a field of a register word as a number: width bits from bit shift
Field(w, shift, width) == WordValue(BitAnd(Shr(w, shift), Word(Pow2(width) - 1)))

\* the register words outside one field of one register are as before the call
OnlyFieldChanged(reg, shift, width) ==
    \A r \in RegWords :
        IF r = reg
        THEN \A b \in BitPos \ (shift .. (shift + width - 1)) :
                 (b \in gpio_regs[r]) = (b \in cfg.prior[r])
        ELSE gpio_regs[r] = cfg.prior[r]

Configured == pc = "cfg_done"

\* ------------------------------------------------------------------ C1
\* C1: when _transfer_data returns from a non-empty image and the
\* cancellation flag was never set, the wire carries exactly 8*len bit cells,
\* each one data-pin write followed by DCLK high then DCLK low, followed by
\* exactly 10 DCLK high/low pulses without a data-pin write, and the transfer
\* is Done.
C1_PulseCount ==
    (Returned /\ ~exit_flag /\ binary_data_size > 0) =>
        LET n == 8 * binary_data_size
        IN  /\ Len(wire) = 3 * n + 2 * 10
            /\ \A k \in 0 .. (n - 1) :
                 /\ wire[3 * k + 1] \in {"D0", "D1"}
                 /\ wire[3 * k + 2] = "H"
                 /\ wire[3 * k + 3] = "L"
            /\ \A k \in 0 .. 9 :
                 /\ wire[3 * n + 2 * k + 1] = "H"
                 /\ wire[3 * n + 2 * k + 2] = "L"
            /\ xfer[cur] = "Done"

C1_Witness ==
    /\ pc = "f1_report"
    /\ ~exit_flag
    /\ binary_data_size = 3
    /\ Len(wire) = 92
    /\ xfer[1] = "Done"

\* ------------------------------------------------------------------ C2
\* C2: while the cancellation flag is not set, the data values driven so far
\* are a prefix of the image's bits taken byte by byte, least significant bit
\* first, and at return they are all of them; for byte 0b10110010 they are
\* 0,1,0,0,1,1,0,1 and for [0x01, 0x00, 0xFF] they are 1, fifteen 0s, eight 1s.
C2_LsbFirstOrder ==
    (cur # 0 /\ ~exit_flag) =>
        LET img == mem[binary_data]
            sent == DataValues(wire)
        IN  /\ IsPrefix(sent, ImageBits(img))
            /\ Returned => Len(sent) = 8 * Len(img)
            /\ (Returned /\ img = <<178>>) => sent = <<0, 1, 0, 0, 1, 1, 0, 1>>
            /\ (Returned /\ img = <<1, 0, 255>>) =>
                   sent = <<1, 0, 0, 0, 0, 0, 0, 0,  0, 0, 0, 0, 0, 0, 0, 0,  1, 1, 1, 1, 1, 1, 1, 1>>

C2_Witness ==
    /\ pc = "f1_report"
    /\ ~exit_flag
    /\ mem[1] = <<1, 0, 255>>
    /\ Len(DataValues(wire)) = 24

\* ------------------------------------------------------------------ C3
\* C3: on the wire a data-pin write is followed by DCLK high and DCLK high by
\* DCLK low, and nothing starts with DCLK low; every write of the data pin
\* happens with DCLK low (no DCLK write follows it in its step and DCLK is
\* low after the step); DCLK is low whenever _transfer_data has returned.
C3_EdgeOrder ==
    /\ \A k \in 1 .. Len(wire) :
         /\ (k = 1) => wire[k] # "L"
         /\ (k < Len(wire) /\ wire[k] \in {"D0", "D1"}) => wire[k + 1] = "H"
         /\ (k < Len(wire) /\ wire[k] = "H") => wire[k + 1] = "L"
         /\ (k < Len(wire) /\ wire[k] = "L") => wire[k + 1] \in {"D0", "D1", "H"}
    /\ (pc = "t_clk_hi") => (wire # <<>> /\ Last(wire) \in {"D0", "D1"})
    /\ \A k \in 1 .. Len(ops) :
         WritesPin(ops[k], DATA0_GPIO_PIN) =>
            /\ \A m \in (k + 1) .. Len(ops) : ~WritesPin(ops[m], DCLK_GPIO_PIN)
            /\ PinLevel(gpio_lev, DCLK_GPIO_PIN) = 0
    /\ Returned => PinLevel(gpio_lev, DCLK_GPIO_PIN) = 0

C3_Witness ==
    /\ pc = "f1_report"
    /\ xfer[1] = "Aborted"
    /\ Len(wire) >= 24
    /\ PinLevel(gpio_lev, DCLK_GPIO_PIN) = 0

\* ------------------------------------------------------------------ C4
\* C4: if the cancellation flag is set after byte k has started and before
\* byte k+1 begins (sig_byte = k+1 bytes started), the transfer starts no
\* further byte and emits no tail pulse: the cursor stays at k+1 and the wire
\* holds at most the cells of the bytes up to k.
C4_CancelStopsTransfer ==
    (sig_byte >= 1) =>
        /\ data <= sig_byte
        /\ Len(wire) <= 3 * 8 * sig_byte
        /\ pc \notin {"tail_hi", "tail_lo"}

\* ------------------------------------------------------------------ C5
\* C5: the "FPGA<t> configured" message is on standard output only for a
\* target whose transfer reached Done; never for one that ended Aborted.
C5_NoSuccessAfterAbort ==
    \A t \in {1, 2} : (ConfiguredMsg(t) \in Range(msgs)) => xfer[t] = "Done"

\* ------------------------------------------------------------------ C6
\* C6: if mapping the register window failed, no step performs a register
\* access (configure, write or read, the strap reads included), no transfer
\* is started, and the process ends only by returning 0.
C6_MapFailureSkipsPins ==
    (pc \notin {"main_start", "open_gpio"} /\ ~EverMapped) =>
        /\ \A k \in 1 .. Len(ops) : ~IsRegAccess(ops[k])
        /\ \A t \in {1, 2} : xfer[t] = "Idle"
        /\ (pc \in Terminal) => (pc = "exited" /\ exit_code = 0)

\* ------------------------------------------------------------------ C7
\* C7: when the register window was mapped and no allocation failed, no
\* buffer that is not live is freed, the window is unmapped at most once, the
\* closing step writes DCLK low, then DATA0 low, then unmaps, and the process
\* ends only by returning 0 with the window unmapped exactly once and both
\* lines low.
C7_CleanupOnEveryPath ==
    /\ ~bad_free
    /\ munmap_count <= 1
    /\ (pc = "main_exit" /\ EverMapped) =>
          /\ Len(ops) = 3
          /\ ops[1] = Op("write", "PAGE", 10, {DCLK_GPIO_PIN})
          /\ ops[2] = Op("write", "PAGE", 10, {DATA0_GPIO_PIN})
          /\ ops[3].op = "munmap"
    /\ (pc \in {"main_exit", "exited"} /\ EverMapped) =>
          /\ munmap_count = 1
          /\ ~page_mapped
          /\ gpio_port = "NULL"
          /\ PinLevel(gpio_lev, DCLK_GPIO_PIN) = 0
          /\ PinLevel(gpio_lev, DATA0_GPIO_PIN) = 0
          /\ \A b \in {1, 2} : heap[b] # "live"
    /\ (pc \in Terminal /\ EverMapped /\ ~alloc_failed) => (pc = "exited" /\ exit_code = 0)

C7_Witness ==
    /\ pc = "exited"
    /\ hat = 0
    /\ munmap_count = 1
    /\ heap[1] = "freed"
    /\ heap[2] = "unalloc"
    /\ OpenErrorMsg(2) \in Range(msgs)
    /\ exit_code = 0

\* ------------------------------------------------------------------ C8
\* C8: a run of the signal handler performs exactly one operation, the store
\* of true to the cancellation flag.
C8_HandlerOnlySetsFlag ==
    handler_ops \in {<<>>, <<Other("store exit_flag")>>}

\* ------------------------------------------------------------------ C9
\* C9: after the board revision detection, the message reported is the one
\* for code = pin1 + 2*pin2 (0 Rev D, 1 Rev B, 2 Rev C, 3 Rev A), pin1 being
\* bit 20 of the first word read and pin2 bit 21 of the second, both words
\* being the pin levels when the window is mapped; the step performs two
\* reads of the pin-read register and no write.
C9_BoardRevMapping ==
    (pc = "main_check") =>
        /\ Len(ops) = 2
        /\ \A k \in 1 .. 2 : ops[k].op = "read"
        /\ (gpio_port # "NULL") =>
              \A k \in 1 .. 2 : ops[k].base = "PAGE" /\ ops[k].reg = 13 /\ ops[k].val = gpio_lev
        /\ LET pin1 == IF 20 \in ops[1].val THEN 1 ELSE 0
               pin2 == IF 21 \in ops[2].val THEN 1 ELSE 0
           IN  /\ (pin1 = 0 /\ pin2 = 0) => Last(msgs) = "Detected Board Rev D"
               /\ (pin1 = 1 /\ pin2 = 0) => Last(msgs) = "Detected Board Rev B"
               /\ (pin1 = 0 /\ pin2 = 1) => Last(msgs) = "Detected Board Rev C"
               /\ (pin1 = 1 /\ pin2 = 1) => Last(msgs) = "Detected Board Rev A"

C9_Witness ==
    /\ pc = "main_check"
    /\ gpio_port # "NULL"
    /\ 20 \notin gpio_lev
    /\ 21 \in gpio_lev
    /\ Last(msgs) = "Detected Board Rev C"

\* ----------------------------------------------------------------- C10
\* C10: every write a step makes to the pin-set or pin-clear register is the
\* one-hot word of one of the pins 2, 3, 16, 17; after the step each pin the
\* step wrote has the level of the last write to it (set: 1, clear: 0) and
\* every other pin has the level it had before the step.
LastWriteTo(seq, q) ==
    LET ks == {k \in 1 .. Len(seq) : WritesPin(seq[k], q)}
    IN  IF ks = {} THEN 0 ELSE CHOOSE k \in ks : \A m \in ks : m <= k

C10_Step ==
    (ops' # ops \/ gpio_lev' # gpio_lev) =>
        /\ \A k \in 1 .. Len(ops') :
              IsWrite(ops'[k]) =>
                 /\ \E p \in {2, 3, 16, 17} : ops'[k].val = {p}
                 /\ ops'[k].base = "PAGE"
                 /\ ops'[k].reg \in {7, 10}
        /\ \A q \in BitPos :
              LET k == LastWriteTo(ops', q)
              IN  PinLevel(gpio_lev', q) =
                     IF k = 0 THEN PinLevel(gpio_lev, q)
                     ELSE IF ops'[k].reg = 7 THEN 1 ELSE 0

C10_OneHotWrites == [][C10_Step]_vars

C10_Witness ==
    /\ pc = "board_rev"
    /\ hat = 0
    /\ gpio_port # "NULL"
    /\ gpio_lev = {FPGA2_NCE_GPIO_PIN, BOARD_REV_GPIO_PIN_1, BOARD_REV_GPIO_PIN_2}
    /\ Len(ops) = 9


\* ----------------------------------------------------------------- C11
\* the function-select register and field of a pin
FselReg(pin) == pin \div 10
FselShift(pin) == (pin % 10) * 3
FselRegs == {0, 1, 2}

\* C11: after configure(pin, Output) the pin's 3-bit function-select field
\* holds 0b001 whatever the register held before, and every other bit of
\* every register is as it was.
C11_OutputFieldExact ==
    (Configured /\ cfg.output) =>
        /\ Field(gpio_regs[FselReg(cfg.pin)], FselShift(cfg.pin), 3) = 1
        /\ OnlyFieldChanged(FselReg(cfg.pin), FselShift(cfg.pin), 3)

\* ----------------------------------------------------------------- C12
\* C12: after configure(pin, InputPullUp) the pin's function-select field
\* holds 0b000 and no other function-select field, in the same register or in
\* another one, has changed.
C12_InputFieldCleared ==
    (Configured /\ ~cfg.output) =>
        /\ Field(gpio_regs[FselReg(cfg.pin)], FselShift(cfg.pin), 3) = 0
        /\ \A r \in FselRegs :
               \A b \in BitPos :
                   (r # FselReg(cfg.pin)
                      \/ b \notin FselShift(cfg.pin) .. (FselShift(cfg.pin) + 2))
                   => ((b \in gpio_regs[r]) = (b \in cfg.prior[r]))

\* a strap pin configured as input over a register whose fields all held 0b111
C12_Witness ==
    /\ Configured /\ ~cfg.output
    /\ cfg.pin = BOARD_REV_GPIO_PIN_1
    /\ Field(cfg.prior[FselReg(cfg.pin)], FselShift(cfg.pin), 3) = 7
    /\ Field(gpio_regs[FselReg(cfg.pin)], FselShift(cfg.pin), 3) = 0
    /\ Field(gpio_regs[FselReg(cfg.pin)], FselShift(cfg.pin) + 3, 3) = 7

\* ----------------------------------------------------------------- C18
\* the pull-control bank: consecutive words from GPIO_PULL_BASE_OFFSET, 16
\* pins of 2 bits each per word
PullReg(pin) == (GPIO_PULL_BASE_OFFSET \div WordSize) + (pin \div 16)
PullShift(pin) == 2 * (pin % 16)

\* C18: configure(pin, InputPullUp) touches, outside the function-select
\* registers, only the 2-bit field at bits 2*(pin%16) of pull register number
\* pin/16 counted in words from GPIO_PULL_BASE_OFFSET: no other pull field
\* and no word outside the bank changes.  Stated for the two strap pins, the
\* pins the program configures as inputs.
C18_PullFieldOnly ==
    (Configured /\ ~cfg.output
        /\ cfg.pin \in {BOARD_REV_GPIO_PIN_1, BOARD_REV_GPIO_PIN_2}) =>
        \A r \in RegWords \ FselRegs :
            \A b \in BitPos :
                (r # PullReg(cfg.pin)
                   \/ b \notin PullShift(cfg.pin) .. (PullShift(cfg.pin) + 1))
                => ((b \in gpio_regs[r]) = (b \in cfg.prior[r]))


\* ----------------------------------------------------------------- C13
\* DCLK pulses of the current transfer started without a data write before
\* them: the pulses of the tail
TailStarted ==
    Cardinality({k \in DOMAIN wire : wire[k] = "H"})
        - Cardinality({k \in DOMAIN wire : wire[k] \in {"D0", "D1"}})

\* C13: when the flag is set after tail pulse t was started (t = sig_tail), no
\* tail pulse after t is started, and a transfer that has returned leaves
\* DCLK low.
C13_TailCancel ==
    /\ sig_tail >= 1 => TailStarted <= sig_tail
    /\ (Returned /\ exit_flag) => DCLK_GPIO_PIN \notin gpio_lev


\* ----------------------------------------------------------------- C14
\* the positions inside _transfer_data
TransferPcs == StreamPcs \cup TailPcs

\* C14: in the two-target build, all through target 1's transfer nCONFIG and
\* target 2's chip-select are high; the chip-select is still high after
\* target 1 has returned and until target 2 is loaded, and low all through
\* target 2's transfer; no step after setup configures a pin direction.
C14_SelectOrdering ==
    hat = 0 =>
        /\ (cur = 1 /\ pc \in TransferPcs) =>
               /\ NCONFIG_GPIO_PIN \in gpio_lev
               /\ FPGA2_NCE_GPIO_PIN \in gpio_lev
        /\ pc \in {"f1_report", "main_free1", "f2_load"} => FPGA2_NCE_GPIO_PIN \in gpio_lev
        /\ (cur = 2 /\ pc \in TransferPcs) => FPGA2_NCE_GPIO_PIN \notin gpio_lev
        /\ pc \notin {"main_start", "open_gpio", "board_rev"} =>
               \A k \in DOMAIN ops : ops[k].op # "configure"

\* target 2 fully clocked after target 1 was, with its chip-select low
C14_Witness ==
    /\ hat = 0 /\ cur = 2 /\ pc = "f2_report"
    /\ xfer[1] = "Done" /\ xfer[2] = "Done"
    /\ binary_data_size > 0
    /\ FPGA2_NCE_GPIO_PIN \notin gpio_lev
    /\ NCONFIG_GPIO_PIN \in gpio_lev


\* ----------------------------------------------------------------- C15
\* C15: every pin written through the set or clear register by a step of the
\* main thread was configured as an output by the setup before the write (the
\* setup configures before it writes), and no step after setup configures a
\* pin direction.
C15_OutputBeforeWrite ==
    /\ \A k \in DOMAIN ops :
           IsWrite(ops[k]) => \A p \in ops[k].val : pin_dir[p] = "out"
    /\ pc \notin {"main_start", "open_gpio", "board_rev"} =>
           \A k \in DOMAIN ops : ops[k].op # "configure"


\* ----------------------------------------------------------------- C16
LiveBuffers == {b \in DOMAIN heap : heap[b] = "live"}

\* C16: at most one image buffer is live at any time, and it is the one
\* binary_data points to; when target 2 is about to be loaded target 1's
\* buffer is not live and binary_data is null; no buffer is freed that is not
\* live; the process ends, in any way, with no live buffer.
C16_OneBufferFreedOnce ==
    /\ Cardinality(LiveBuffers) <= 1
    /\ \A b \in LiveBuffers : binary_data = b
    /\ pc = "f2_load" => (heap[1] # "live" /\ binary_data = 0)
    /\ ~bad_free
    /\ pc \in Terminal \cup {"main_exit"} => LiveBuffers = {}

\* both images were loaded, clocked and freed, and the process returned
C16_Witness ==
    /\ pc = "exited" /\ hat = 0
    /\ heap[1] = "freed" /\ heap[2] = "freed"
    /\ ~bad_free
    /\ binary_data = 2


\* ----------------------------------------------------------------- C17
\* five writes of the clock pin's bit to one register of the page
FiveDclkWrites(offset) ==
    [k \in 1 .. 5 |-> Op("write", "PAGE", offset \div WordSize, {DCLK_GPIO_PIN})]

\* C17: inside a transfer, the step that raises DCLK is exactly 5 identical
\* writes of the clock pin's bit to the set register, the step that lowers it
\* exactly 5 identical writes to the clear register, and no step that writes
\* the clock pin carries any other operation.
C17_FiveWritesPerEdge ==
    (cur # 0 /\ pc \in TransferPcs) =>
        /\ pc \in {"t_clk_lo", "tail_lo"} => ops = FiveDclkWrites(GPIO_SET_OFFSET)
        /\ (Len(wire) > 0 /\ Last(wire) = "L" /\ Len(ops) > 0 /\ IsWrite(ops[1])) =>
               ops = FiveDclkWrites(GPIO_CLR_OFFSET)
        /\ (\E k \in DOMAIN ops : WritesPin(ops[k], DCLK_GPIO_PIN)) =>
               ops \in {FiveDclkWrites(GPIO_SET_OFFSET), FiveDclkWrites(GPIO_CLR_OFFSET)}

\* the falling edge of the last tail pulse of a complete transfer
C17_Witness ==
    /\ pc = "tail_check" /\ dclk_count = 0
    /\ TailStarted = 10
    /\ Last(wire) = "L"
    /\ ops = FiveDclkWrites(GPIO_CLR_OFFSET)
    /\ gpio_clr_reg.base = "PAGE"


\* ----------------------------------------------------------------- C19
\* C19: after the flag was set no more than 8 DCLK pulses are started in the
\* rest of the process, and in the two-target build a flag first set before
\* target 2 was loaded leaves target 2's transfer without any data write or
\* pulse.
C19_LatePulsesBounded ==
    /\ late_pulses <= 8
    /\ (hat = 0 /\ sig_early /\ cur = 2) => wire = <<>>


\* ----------------------------------------------------------------- C20
\* C20: with the main thread scheduled fairly, every run eventually reaches
\* the end of main, after the completion report, and returns 0.
C20_Terminates == <>(pc = "exited" /\ exit_code = 0)

====
